---- MODULE Spec2Model ----
(***************************************************************************)
(* Model of dstack/cim.py: the comparison, difference and stacking         *)
(* routines over CASAImage cubes.                                          *)
(*                                                                         *)
(* Pixel values are extended rationals <<num, den>> in lowest terms with   *)
(* den >= 0: <<0, 0>> is NaN, <<1, 0>> is +inf and <<-1, 0>> is -inf.      *)
(* Arithmetic follows IEEE-754 on those values except for rounding, which  *)
(* is outside the model.                                                   *)
(***************************************************************************)
EXTENDS Integers, Sequences, FiniteSets, TLC

\* ------------------------------------------------------------------------
\* Bounds of the model
\* ------------------------------------------------------------------------

\* Largest length of the first (channel) axis of a cube handed to
\* check_CIM_equity.
MaxChan == 3

\* Largest number of paths in the list handed to CIM_stacking_base.
MaxInputs == 3

\* ------------------------------------------------------------------------
\* Floating point values
\* ------------------------------------------------------------------------

Abs(n) == IF n < 0 THEN -n ELSE n

RECURSIVE Gcd(_, _)
Gcd(a, b) == IF b = 0 THEN a ELSE Gcd(b, a % b)

Sign(n) == IF n < 0 THEN -1 ELSE IF n > 0 THEN 1 ELSE 0

Rat(n, d) ==
    IF d = 0 THEN <<Sign(n), 0>>
    ELSE LET g == Gcd(Abs(n), Abs(d))
             s == IF d < 0 THEN -1 ELSE 1
         IN  <<(s * n) \div g, (s * d) \div g>>

NaN == <<0, 0>>
Zero == <<0, 1>>
One == <<1, 1>>

IsNaN(x) == x = NaN
IsFinite(x) == x[2] # 0

FNeg(x) == <<-x[1], x[2]>>
FAbs(x) == <<Abs(x[1]), x[2]>>

FAdd(x, y) ==
    IF ~IsFinite(x) /\ ~IsFinite(y)
    THEN IF x = y THEN x ELSE NaN
    ELSE Rat(x[1] * y[2] + y[1] * x[2], x[2] * y[2])

FSub(x, y) == FAdd(x, FNeg(y))

FMul(x, y) == Rat(x[1] * y[1], x[2] * y[2])

FDiv(x, y) ==
    LET s == IF y[1] < 0 THEN -1 ELSE 1
    IN  Rat(s * x[1] * y[2], x[2] * Abs(y[1]))

\* x == y on floats: NaN equals nothing, itself included.
FEq(x, y) == ~IsNaN(x) /\ ~IsNaN(y) /\ x = y

\* x <= y on floats: false as soon as one side is NaN.
FLe(x, y) ==
    IF IsNaN(x) \/ IsNaN(y) THEN FALSE
    ELSE IF ~IsFinite(x) THEN x[1] < 0 \/ x = y
    ELSE IF ~IsFinite(y) THEN y[1] > 0
    ELSE x[1] * y[2] <= y[1] * x[2]

\* ------------------------------------------------------------------------
\* numpy arrays: [shape |-> <<n1, ..., nk>>, at |-> [index tuple -> value]]
\* ------------------------------------------------------------------------

MaxOf(a, b) == IF a >= b THEN a ELSE b

RECURSIVE MaxDim(_)
MaxDim(shape) ==
    IF shape = <<>> THEN 1 ELSE MaxOf(Head(shape), MaxDim(Tail(shape)))

Indices(shape) ==
    {idx \in [1..Len(shape) -> 1..MaxDim(shape)] :
        \A k \in 1..Len(shape) : idx[k] <= shape[k]}

\* numpy's broadcasting rule for two shapes of the same rank.
Broadcastable(s, t) ==
    /\ Len(s) = Len(t)
    /\ \A k \in 1..Len(s) : s[k] = t[k] \/ s[k] = 1 \/ t[k] = 1

BroadcastShape(s, t) == [k \in 1..Len(s) |-> IF s[k] = 1 THEN t[k] ELSE s[k]]

\* The element of a that numpy pairs with position idx of the broadcast.
BAt(a, idx) == a.at[[k \in 1..Len(idx) |-> IF a.shape[k] = 1 THEN 1 ELSE idx[k]]]

\* np.add(a, b), np.subtract(a, b), np.divide(a, b): the elementwise result
\* over the broadcast shape, or ValueError when the shapes cannot be
\* broadcast.
np_add(a, b) ==
    IF Broadcastable(a.shape, b.shape)
    THEN [exc |-> "",
          val |-> [shape |-> BroadcastShape(a.shape, b.shape),
                   at |-> [idx \in Indices(BroadcastShape(a.shape, b.shape)) |->
                              FAdd(BAt(a, idx), BAt(b, idx))]]]
    ELSE [exc |-> "ValueError", val |-> a]

np_subtract(a, b) ==
    IF Broadcastable(a.shape, b.shape)
    THEN [exc |-> "",
          val |-> [shape |-> BroadcastShape(a.shape, b.shape),
                   at |-> [idx \in Indices(BroadcastShape(a.shape, b.shape)) |->
                              FSub(BAt(a, idx), BAt(b, idx))]]]
    ELSE [exc |-> "ValueError", val |-> a]

np_divide(a, b) ==
    IF Broadcastable(a.shape, b.shape)
    THEN [exc |-> "",
          val |-> [shape |-> BroadcastShape(a.shape, b.shape),
                   at |-> [idx \in Indices(BroadcastShape(a.shape, b.shape)) |->
                              FDiv(BAt(a, idx), BAt(b, idx))]]]
    ELSE [exc |-> "ValueError", val |-> a]

\* np.divide(a, n) for a Python int n: every element divided by n.
np_divide_scalar(a, n) ==
    [shape |-> a.shape, at |-> [idx \in Indices(a.shape) |-> FDiv(a.at[idx], <<n, 1>>)]]

\* np.array_equiv(a1, a2): False when the shapes cannot be broadcast,
\* else whether a1 == a2 holds at every position.
array_equiv(a1, a2) ==
    IF ~Broadcastable(a1.shape, a2.shape) THEN FALSE
    ELSE \A idx \in Indices(BroadcastShape(a1.shape, a2.shape)) :
            FEq(BAt(a1, idx), BAt(a2, idx))

\* One element of np.isclose(x, y, rtol, atol, equal_nan).
isclose(x, y, rtol, atol, equal_nan) ==
    \/ /\ IsFinite(x) /\ IsFinite(y)
       /\ FLe(FAbs(FSub(x, y)), FAdd(atol, FMul(rtol, FAbs(y))))
    \/ FEq(x, y)
    \/ equal_nan /\ IsNaN(x) /\ IsNaN(y)

\* np.allclose(a, b, rtol, atol, equal_nan): raises ValueError when the
\* shapes cannot be broadcast.
allclose(a, b, rtol, atol, equal_nan) ==
    IF ~Broadcastable(a.shape, b.shape)
    THEN [exc |-> "ValueError", val |-> FALSE]
    ELSE [exc |-> "",
          val |-> \A idx \in Indices(BroadcastShape(a.shape, b.shape)) :
                     isclose(BAt(a, idx), BAt(b, idx), rtol, atol, equal_nan)]


\* ------------------------------------------------------------------------
\* Cubes.  A CASAImage is a record
\*   [data, dtype, units, coords, attrgroups, history]
\* where units is <<>> while the table keyword 'units' is missing and <<u>>
\* once it is set.  A coordinate object is a record holding exactly the
\* values its casacore class has an accessor for: calling another accessor
\* on it is Python's AttributeError.
\* ------------------------------------------------------------------------

ndim(cim) == Len(cim.data.shape)

unit(cim) == IF cim.units = <<>> THEN "" ELSE cim.units[1]

Has(axis, accessor) == accessor \in DOMAIN axis

Outcome(exc, msg, val, warned) ==
    [exc |-> exc, msg |-> msg, val |-> val, warned |-> warned]

\* Lines 54-85. No function of the module calls it.
check_axes(cim, required_axes) ==
    IF ndim(cim) = required_axes
    THEN Outcome("", "", TRUE, {})
    ELSE Outcome("AssertionError", "The image has more than 4 axes!", FALSE, {})

\* ------------------------------------------------------------------------
\* check_CIM_equity
\* ------------------------------------------------------------------------

\* check_CIM_equity without the numprec == 0 branch: np.allclose always.
check_CIM_equity_allclose(cimA, cimB, numprec) ==
    IF ndim(cimA) # ndim(cimB)
    THEN Outcome("AssertionError", "dimension not equal", FALSE, {})
    ELSE LET r == allclose(cimA.data, cimB.data, numprec, Zero, TRUE)
         IN  Outcome(r.exc, "", r.val, {})

check_CIM_equity(cimA, cimB, numprec) ==
    IF ndim(cimA) # ndim(cimB)
    THEN Outcome("AssertionError", "dimension not equal", FALSE, {})
    ELSE IF numprec = Zero
    THEN Outcome("", "", array_equiv(cimA.data, cimB.data), {})
    ELSE LET r == allclose(cimA.data, cimB.data, numprec, Zero, TRUE)
         IN  Outcome(r.exc, "", r.val, {})

\* ------------------------------------------------------------------------
\* check_CIM_coordinate_equity
\* ------------------------------------------------------------------------

\* Lines 274-295: the checks made on the pair bound at line 272.
SpectralChecks(axis_a, axis_b) ==
    IF axis_a.frame # axis_b.frame
    THEN Outcome("AssertionError", "different frames", FALSE, {})
    ELSE IF axis_a.unit = axis_b.unit
    THEN IF axis_a.increment # axis_b.increment
         THEN Outcome("AssertionError", "different spectral increment", FALSE, {})
         ELSE IF axis_a.restfrequency # axis_b.restfrequency
         THEN Outcome("AssertionError", "different rest frequency", FALSE, {})
         ELSE IF axis_a.referencepixel = axis_b.referencepixel
         THEN IF axis_a.referencevalue # axis_b.referencevalue
              THEN Outcome("AssertionError", "different spectral reference value", FALSE, {})
              ELSE Outcome("", "", TRUE, {})
         ELSE Outcome("", "", TRUE, {"different spectral reference pixel"})
    ELSE Outcome("", "", TRUE, {"different spectral units"})

\* Line 300.
StokesChecks(axis_a, axis_b) ==
    IF ~Has(axis_a, "stokes") \/ ~Has(axis_b, "stokes")
    THEN Outcome("AttributeError", "get_stokes", FALSE, {})
    ELSE IF axis_a.stokes # axis_b.stokes
    THEN Outcome("AssertionError", "different polarization frame", FALSE, {})
    ELSE Outcome("", "", TRUE, {})

\* Lines 305-322: an AssertionError is raised again by the handler; any
\* other exception is swallowed by the bare except.
DirectionChecks(axis_a, axis_b) ==
    IF ~Has(axis_a, "frame") \/ ~Has(axis_b, "frame")
    THEN Outcome("", "", TRUE, {})
    ELSE IF axis_a.frame # axis_b.frame
    THEN Outcome("AssertionError", "different frames", FALSE, {})
    ELSE IF ~Has(axis_a, "projection") \/ ~Has(axis_b, "projection")
    THEN Outcome("", "", TRUE, {})
    ELSE IF axis_a.projection # axis_b.projection
    THEN Outcome("AssertionError", "different projections", FALSE, {})
    ELSE Outcome("", "", TRUE, {})

\* Lines 324-338.
SpatialChecks(axis_a, axis_b) ==
    IF axis_a.unit = axis_b.unit
    THEN IF axis_a.increment # axis_b.increment
         THEN Outcome("AssertionError", "different direction increment", FALSE, {})
         ELSE IF axis_a.referencepixel = axis_b.referencepixel
         THEN IF axis_a.referencevalue # axis_b.referencevalue
              THEN Outcome("AssertionError", "different direction reference value", FALSE, {})
              ELSE Outcome("", "", TRUE, {})
         ELSE Outcome("", "", TRUE, {"different direction reference pixels"})
    ELSE Outcome("", "", TRUE, {"different direction units"})

\* coordsB is read from cimA (line 258), and axis_a, axis_b are bound once,
\* to the spectral coordinates (line 272): the later assignments to
\* coords_axis do not rebind them.
check_CIM_coordinate_equity(cimA, cimB) ==
    IF ndim(cimA) # ndim(cimB)
    THEN Outcome("AssertionError", "dimension not equal", FALSE, {})
    ELSE IF unit(cimA) # unit(cimB)
    THEN Outcome("AssertionError", "pixel units not equal", FALSE, {})
    ELSE
    LET coordsA == cimA.coords
        coordsB == cimA.coords
        axis_a == coordsA.spectral
        axis_b == coordsB.spectral
        r1 == SpectralChecks(axis_a, axis_b)
        r2 == StokesChecks(axis_a, axis_b)
        r3 == DirectionChecks(axis_a, axis_b)
        r4 == SpatialChecks(axis_a, axis_b)
    IN  IF r1.exc # "" THEN r1
        ELSE IF r2.exc # "" THEN Outcome(r2.exc, r2.msg, FALSE, r1.warned)
        ELSE IF r3.exc # "" THEN Outcome(r3.exc, r3.msg, FALSE, r1.warned)
        ELSE IF r4.exc # "" THEN Outcome(r4.exc, r4.msg, FALSE, r1.warned)
        ELSE Outcome("", "", TRUE, r1.warned \cup r4.warned)

\* ------------------------------------------------------------------------
\* set_CIM_unit: the table's keywords after the call, and the warning
\* ------------------------------------------------------------------------

\* ds.msutil.create_MS_object(path, readonly=False): the open handles once
\* the table at path is opened for writing.  dstack/msutil.py does not hold
\* its definition; it is modelled by the tabular metadata interface it
\* stands for (open for writing, get or put a keyword, close).
create_MS_object(h, path) == [h EXCEPT ![path] = @ + 1]

\* set_CIM_unit with the keyword written whatever overwrite says.
set_CIM_unit_put(cim, newunit, overwrite) ==
    [cim |-> [cim EXCEPT !.units = <<newunit>>], warned |-> {}]

\* Lines 370-377.
set_CIM_unit(cim, newunit, overwrite) ==
    IF cim.units # <<>> /\ cim.units[1] # newunit /\ ~overwrite
    THEN [cim |-> cim, warned |-> {"image already has a pixel unit"}]
    ELSE [cim |-> [cim EXCEPT !.units = <<newunit>>], warned |-> {}]

\* ------------------------------------------------------------------------
\* create_CIM_diff_array
\* ------------------------------------------------------------------------

\* The names bound in the module's namespace (lines 12-20 and the defs).
ModuleNames ==
    {"os", "shutil", "np", "warnings", "casaimage", "casatables", "ds",
     "create_CIM_object", "check_axes", "get_N_chan_from_CIM",
     "get_N_pol_from_CIM", "check_CIM_equity", "ensure_same_dims",
     "check_CIM_coordinate_equity", "set_CIM_unit", "create_CIM_diff_array",
     "measure_CIM_RMS", "CIM_stacking_base"}

\* The names bound in create_CIM_diff_array when line 427 runs.
DiffLocals ==
    {"cimpath_a", "cimpath_b", "rel_diff", "all_dim", "chan", "pol", "close",
     "cimA", "cimB"}

\* data[chan, pol, ...]
Slice(data, chan, pol) ==
    LET rest == SubSeq(data.shape, 3, Len(data.shape))
    IN  [shape |-> rest,
         at |-> [idx \in Indices(rest) |-> data.at[<<chan + 1, pol + 1>> \o idx]]]

SliceInRange(data, chan, pol) ==
    /\ Len(data.shape) >= 2
    /\ chan < data.shape[1]
    /\ pol < data.shape[2]

create_CIM_diff_array(cimA, cimB, rel_diff, all_dim, chan, pol) ==
    IF ~({"a", "b"} \subseteq (ModuleNames \cup DiffLocals))
    THEN Outcome("NameError", "name 'a' is not defined", FALSE, {})
    ELSE IF ~all_dim /\ ~(SliceInRange(cimA.data, chan, pol) /\ SliceInRange(cimB.data, chan, pol))
    THEN Outcome("IndexError", "", FALSE, {})
    ELSE
    LET A == IF all_dim THEN cimA.data ELSE Slice(cimA.data, chan, pol)
        B == IF all_dim THEN cimB.data ELSE Slice(cimB.data, chan, pol)
        d == np_subtract(A, B)
        q == IF d.exc = "" THEN np_divide(d.val, B) ELSE d
    IN  IF rel_diff THEN Outcome(q.exc, "", q.val, {})
        ELSE Outcome(d.exc, "", d.val, {})

\* ------------------------------------------------------------------------
\* The cubes the operations are run on
\* ------------------------------------------------------------------------

RefSpectral ==
    [frame |-> "LSRK", unit |-> "Hz", increment |-> 1, restfrequency |-> 1,
     referencepixel |-> 0, referencevalue |-> 1]

RefStokes ==
    [stokes |-> <<"I">>, unit |-> "", increment |-> 1,
     referencepixel |-> 0, referencevalue |-> 1]

RefDirection ==
    [frame |-> "J2000", projection |-> "SIN", unit |-> <<"rad", "rad">>,
     increment |-> <<-1, 1>>, referencepixel |-> <<0, 0>>,
     referencevalue |-> <<0, 0>>]

RefLinear ==
    [unit |-> <<"lambda", "lambda">>, increment |-> <<1, 1>>,
     referencepixel |-> <<0, 0>>, referencevalue |-> <<0, 0>>]

\* The coordinate system of an image, and of a grid.
RefCoords == [spectral |-> RefSpectral, stokes |-> RefStokes, direction |-> RefDirection]
GridCoords == [spectral |-> RefSpectral, stokes |-> RefStokes, linear |-> RefLinear]

DataOver(shape, vals) == {[shape |-> shape, at |-> f] : f \in [Indices(shape) -> vals]}

RefCube(data) ==
    [data |-> data, dtype |-> "float", units |-> <<"Jy/beam">>,
     coords |-> RefCoords, attrgroups |-> <<>>, history |-> <<>>]

\* The same pixels with the last axis (of length 1) dropped.
DropAxis(data) ==
    LET shape == SubSeq(data.shape, 1, Len(data.shape) - 1)
    IN  [shape |-> shape, at |-> [idx \in Indices(shape) |-> data.at[idx \o <<1>>]]]

\* Cubes that differ from RefCube(data) in one respect.
VariantNames ==
    {"same", "complex", "ndim3", "nounit", "otherunit", "frame", "specunit",
     "increment", "restfreq", "refpix", "refval", "stokes", "dirincrement",
     "dirrefpix", "grid", "attrgroups", "history"}

Variant(v, data) ==
    LET c == RefCube(data)
    IN  CASE v = "same" -> c
          [] v = "complex" -> [c EXCEPT !.dtype = "complex"]
          [] v = "ndim3" -> [c EXCEPT !.data = DropAxis(data)]
          [] v = "nounit" -> [c EXCEPT !.units = <<>>]
          [] v = "otherunit" -> [c EXCEPT !.units = <<"K">>]
          [] v = "frame" -> [c EXCEPT !.coords.spectral.frame = "BARY"]
          [] v = "specunit" -> [c EXCEPT !.coords.spectral.unit = "km/s"]
          [] v = "increment" -> [c EXCEPT !.coords.spectral.increment = 2]
          [] v = "restfreq" -> [c EXCEPT !.coords.spectral.restfrequency = 2]
          [] v = "refpix" -> [c EXCEPT !.coords.spectral.referencepixel = 1]
          [] v = "refval" -> [c EXCEPT !.coords.spectral.referencevalue = 2]
          [] v = "stokes" -> [c EXCEPT !.coords.stokes.stokes = <<"Q">>]
          [] v = "dirincrement" -> [c EXCEPT !.coords.direction.increment = <<-2, 2>>]
          [] v = "dirrefpix" -> [c EXCEPT !.coords.direction.referencepixel = <<1, 1>>]
          [] v = "grid" -> [c EXCEPT !.coords = GridCoords, !.dtype = "complex"]
          [] v = "attrgroups" -> [c EXCEPT !.attrgroups = <<"misc">>]
          [] v = "history" -> [c EXCEPT !.history = <<"imported">>]

\* Pixel values of the cubes handed to check_CIM_equity, and its numprec.
EquityValues == {Zero, One, <<2, 1>>, NaN}
Precisions == {Zero, <<1, 2>>, One}

\* 4-D cubes with 1..MaxChan channels and every pixel content, and the 3-D
\* cubes of one pixel.
EquityCubes ==
    {RefCube(d) : d \in UNION {DataOver(<<n, 1, 1, 1>>, EquityValues) : n \in 1..MaxChan}}
    \cup {RefCube(d) : d \in DataOver(<<1, 1, 1>>, EquityValues)}

\* Cubes handed to check_CIM_coordinate_equity: every combination of the
\* coordinate values, the pixel unit and the rank.
CoordCubes ==
    {[data |-> d, dtype |-> "float", units |-> u, attrgroups |-> <<>>, history |-> <<>>,
      coords |->
        [spectral |-> [frame |-> f, unit |-> su, increment |-> si, restfrequency |-> rf,
                       referencepixel |-> rp, referencevalue |-> rv],
         stokes |-> [RefStokes EXCEPT !.stokes = st],
         direction |-> [RefDirection EXCEPT !.increment = di, !.referencepixel = dp]]] :
        d \in DataOver(<<1, 1, 1, 1>>, {One}) \cup DataOver(<<1, 1, 1>>, {One}),
        u \in {<<"Jy/beam">>, <<>>},
        f \in {"LSRK", "BARY"}, su \in {"Hz", "km/s"}, si \in {1, 2}, rf \in {1, 2},
        rp \in {0, 1}, rv \in {1, 2}, st \in {<<"I">>, <<"Q">>},
        di \in {<<-1, 1>>, <<-2, 2>>}, dp \in {<<0, 0>>, <<1, 1>>}}

\* Pixel contents of the cubes handed to CIM_stacking_base.
StackData == DataOver(<<2, 1, 1, 1>>, {Zero, One, NaN})

\* The lists of 0..MaxInputs paths over the two input cubes.
PathLists == UNION {[1..n -> {"a", "b"}] : n \in 0..MaxInputs}

Paths == {"a", "b", "out"}

\* ------------------------------------------------------------------------
\* State
\* ------------------------------------------------------------------------

VARIABLES
    disk,       \* path -> the CASAImage stored there (its domain: the paths that exist)
    handles,    \* path -> number of open image or table handles on it
    pc,         \* where the running call stands
    args,       \* the arguments of the call, and the disk as the call found it
    acc,        \* stacked_cim_data
    i,          \* the loop index of CIM_stacking_base, counted from 1
    result,     \* how the call ended: exception, value, warnings
    warnings,   \* the warnings issued so far
    diff,       \* the create_CIM_diff_array call made after the stacking
    images      \* the image objects create_CIM_object has returned, oldest first

vars == <<disk, handles, pc, args, acc, i, result, warnings, diff, images>>

NoResult == Outcome("", "", FALSE, {})
NoDiff == [called |-> FALSE]
NoHandles == [p \in Paths |-> 0]
NoData == [shape |-> <<>>, at |-> <<>>]

\* An image left at the output path by an earlier run.
OldCube == [RefCube(CHOOSE d \in StackData : \A idx \in DOMAIN d.at : d.at[idx] = Zero)
               EXCEPT !.units = <<"K">>]

\* ------------------------------------------------------------------------
\* CIM_stacking_base
\* ------------------------------------------------------------------------

\* StackPrecondition with the overwrite flag read the wrong way round.
StackPreconditionInverted(cimpath_list, output_exists, overwrite) ==
    IF ~(Len(cimpath_list) >= 2) THEN "less than two image given"
    ELSE IF output_exists /\ overwrite THEN "stacked image already exist"
    ELSE ""

\* Lines 538-542: the message of the failing assertion, "" when both pass.
StackPrecondition(cimpath_list, output_exists, overwrite) ==
    IF ~(Len(cimpath_list) >= 2) THEN "less than two image given"
    ELSE IF output_exists /\ ~overwrite THEN "stacked image already exist"
    ELSE ""

\* check_attrgroup_empty and check_history_empty (lines 549-550).
ProvenanceWarnings(cim) ==
    (IF cim.attrgroups = <<>> THEN {} ELSE {"non-empty attribute list"})
    \cup (IF cim.history = <<>> THEN {} ELSE {"non-empty history field"})

\* casaimage.image(..., values=...) with the pixels left at zero, as when
\* only a shape is given.
NewImageZeros(coordsys, values, dtype) ==
    [data |-> [shape |-> values.shape,
               at |-> [idx \in DOMAIN values.at |-> Zero]],
     dtype |-> dtype, units |-> <<>>, coords |-> coordsys,
     attrgroups |-> <<>>, history |-> <<>>]

\* casaimage.image(output_cim, coordsys=..., values=..., overwrite=...)
NewImage(coordsys, values, dtype) ==
    [data |-> values, dtype |-> dtype, units |-> <<>>, coords |-> coordsys,
     attrgroups |-> <<>>, history |-> <<>>]

InitStack ==
    \E dA \in StackData, dB \in StackData, v \in VariantNames, list \in PathLists,
       existing \in BOOLEAN, normalise \in BOOLEAN, overwrite \in BOOLEAN :
        /\ disk = [p \in (IF existing THEN Paths ELSE {"a", "b"}) |->
                      IF p = "a" THEN RefCube(dA)
                      ELSE IF p = "b" THEN Variant(v, dB)
                      ELSE OldCube]
        /\ args = [fn |-> "CIM_stacking_base", cimpath_list |-> list, output_cim |-> "out",
                   normalise |-> normalise, overwrite |-> overwrite, disk0 |-> disk]
        /\ handles = NoHandles
        /\ pc = "stack"
        /\ acc = NoData
        /\ i = 1
        /\ result = NoResult
        /\ warnings = {}
        /\ diff = NoDiff
        /\ images = <<>>

\* Lines 538-542.
StackCheck ==
    /\ pc = "stack"
    /\ LET msg == StackPrecondition(args.cimpath_list, args.output_cim \in DOMAIN disk,
                                    args.overwrite)
       IN  IF msg # ""
           THEN /\ pc' = "raised"
                /\ result' = Outcome("AssertionError", msg, FALSE, {})
           ELSE /\ pc' = "create"
                /\ UNCHANGED result
    /\ UNCHANGED <<disk, handles, args, acc, i, warnings, diff, images>>

\* Lines 544-562: open the first image, create the output image from its
\* coordinate system and data, keep the data in memory.
StackCreate ==
    /\ pc = "create"
    /\ LET base_cim == disk[args.cimpath_list[1]]
       IN  /\ warnings' = warnings \cup ProvenanceWarnings(base_cim)
           /\ disk' = [p \in DOMAIN disk \cup {args.output_cim} |->
                          IF p = args.output_cim
                          THEN NewImage(base_cim.coords, base_cim.data, base_cim.dtype)
                          ELSE disk[p]]
           /\ acc' = base_cim.data
           /\ handles' = [p \in Paths |->
                             handles[p]
                             + (IF p = args.cimpath_list[1] THEN 1 ELSE 0)
                             + (IF p = args.output_cim THEN 1 ELSE 0)]
    /\ pc' = "release"
    /\ UNCHANGED <<args, i, result, diff, images>>

\* Line 565: del stacked_cim.
StackRelease ==
    /\ pc = "release"
    /\ handles' = [handles EXCEPT ![args.output_cim] = @ - 1]
    /\ pc' = "set_unit"
    /\ UNCHANGED <<disk, args, acc, i, result, warnings, diff, images>>

\* Line 568, first half: set_CIM_unit(output_cim, base_cim.unit()) opens
\* the image as a table (line 368).
StackSetUnitOpen ==
    /\ pc = "set_unit"
    /\ handles' = create_MS_object(handles, args.output_cim)
    /\ pc' = "set_unit_opened"
    /\ UNCHANGED <<disk, args, acc, i, result, warnings, diff, images>>

\* Line 568, second half: set_CIM_unit updates the keyword and closes the
\* table (lines 370-379).
StackSetUnitStore ==
    /\ pc = "set_unit_opened"
    /\ LET r == set_CIM_unit(disk[args.output_cim], unit(disk[args.cimpath_list[1]]), FALSE)
       IN  /\ disk' = [disk EXCEPT ![args.output_cim] = r.cim]
           /\ warnings' = warnings \cup r.warned
    /\ handles' = [handles EXCEPT ![args.output_cim] = @ - 1]
    /\ pc' = "reopen"
    /\ UNCHANGED <<args, acc, i, result, diff, images>>

\* Line 571.
StackReopen ==
    /\ pc = "reopen"
    /\ handles' = [handles EXCEPT ![args.output_cim] = @ + 1]
    /\ i' = 2
    /\ pc' = "loop"
    /\ UNCHANGED <<disk, args, acc, result, warnings, diff, images>>

\* The handles after `cim` is bound to image number k of the list: the
\* image bound by the iteration before is released.
RebindCim(h, list, k) ==
    [p \in Paths |->
        h[p] + (IF p = list[k] THEN 1 ELSE 0)
             - (IF k > 2 /\ p = list[k - 1] THEN 1 ELSE 0)]

\* Lines 574-584 for image number i of the list and, when it is the last
\* one, lines 586-594, which only the loop's normal end reaches.
StackLoop ==
    /\ pc = "loop"
    /\ LET list == args.cimpath_list
           base_cim == disk[list[1]]
           cim == disk[list[i]]
           stacked_cim == disk[args.output_cim]
           ce == check_CIM_coordinate_equity(cim, stacked_cim)
           sum == np_add(acc, cim.data)
           total == IF args.normalise
                    THEN np_divide_scalar(sum.val, Len(list))
                    ELSE sum.val
           opened == RebindCim(handles, list, i)
       IN  IF base_cim.dtype # cim.dtype
           THEN /\ pc' = "raised"
                /\ result' = Outcome("AssertionError", "data type not equal", FALSE, {})
                /\ handles' = opened
                /\ UNCHANGED <<disk, acc, i, warnings>>
           ELSE IF ndim(base_cim) # ndim(cim)
           THEN /\ pc' = "raised"
                /\ result' = Outcome("AssertionError", "dimension not equal", FALSE, {})
                /\ handles' = opened
                /\ UNCHANGED <<disk, acc, i, warnings>>
           ELSE IF ce.exc # ""
           THEN /\ pc' = "raised"
                /\ result' = ce
                /\ warnings' = warnings \cup ce.warned
                /\ handles' = opened
                /\ UNCHANGED <<disk, acc, i>>
           ELSE IF sum.exc # ""
           THEN /\ pc' = "raised"
                /\ result' = Outcome(sum.exc, "", FALSE, {})
                /\ warnings' = warnings \cup ce.warned \cup ProvenanceWarnings(cim)
                /\ handles' = opened
                /\ UNCHANGED <<disk, acc, i>>
           ELSE IF i < Len(list)
           THEN /\ pc' = "loop"
                /\ i' = i + 1
                /\ acc' = sum.val
                /\ warnings' = warnings \cup ce.warned \cup ProvenanceWarnings(cim)
                /\ handles' = opened
                /\ UNCHANGED <<disk, result>>
           ELSE /\ pc' = "returned"
                /\ acc' = total
                /\ disk' = [disk EXCEPT ![args.output_cim].data = total]
                /\ warnings' = warnings \cup ce.warned \cup ProvenanceWarnings(cim)
                /\ handles' = [opened EXCEPT ![args.output_cim] = @ - 1, ![list[1]] = @ - 1]
                /\ result' = Outcome("", "", FALSE, {})
                /\ UNCHANGED i
    /\ UNCHANGED <<args, diff, images>>

\* create_CIM_diff_array(output_cim, input, rel_diff, all_dim) once the
\* stacking has ended and left an image at the output path.
Difference ==
    /\ pc \in {"returned", "raised"}
    /\ ~diff.called
    /\ args.output_cim \in DOMAIN disk
    /\ \E k \in DOMAIN args.cimpath_list, rel_diff \in BOOLEAN, all_dim \in BOOLEAN :
          diff' = [called |-> TRUE, cimpath_a |-> args.output_cim,
                   cimpath_b |-> args.cimpath_list[k],
                   rel_diff |-> rel_diff, all_dim |-> all_dim,
                   out |-> create_CIM_diff_array(disk[args.output_cim],
                                                 disk[args.cimpath_list[k]],
                                                 rel_diff, all_dim, 0, 0)]
    /\ UNCHANGED <<disk, handles, pc, args, acc, i, result, warnings, images>>

Next == StackCheck \/ StackCreate \/ StackRelease \/ StackSetUnitOpen \/ StackSetUnitStore
        \/ StackReopen
        \/ StackLoop \/ Difference

Spec == InitStack /\ [][Next]_vars

\* ------------------------------------------------------------------------
\* check_CIM_equity and check_CIM_coordinate_equity called on two stored cubes
\* ------------------------------------------------------------------------

InitEquity ==
    \E cA \in EquityCubes, cB \in EquityCubes :
        /\ disk = [p \in {"a", "b"} |-> IF p = "a" THEN cA ELSE cB]
        /\ args = [fn |-> "none"]
        /\ handles = NoHandles
        /\ pc = "idle"
        /\ acc = NoData
        /\ i = 1
        /\ result = NoResult
        /\ warnings = {}
        /\ diff = NoDiff
        /\ images = <<>>

\* check_CIM_equity(cimpath_a, cimpath_b, numprec), lines 182-196.
CallEquity ==
    /\ pc = "idle"
    /\ \E cimpath_a \in DOMAIN disk, cimpath_b \in DOMAIN disk, numprec \in Precisions :
          /\ args' = [fn |-> "check_CIM_equity", cimpath_a |-> cimpath_a,
                      cimpath_b |-> cimpath_b, numprec |-> numprec]
          /\ result' = check_CIM_equity(disk[cimpath_a], disk[cimpath_b], numprec)
    /\ pc' = "done"
    /\ UNCHANGED <<disk, handles, acc, i, warnings, diff, images>>

NextEquity == CallEquity

SpecEquity == InitEquity /\ [][NextEquity]_vars

InitCoord ==
    \E cA \in {Variant(v, d) : v \in {"same", "grid"}, d \in DataOver(<<1, 1, 1, 1>>, {One})},
       cB \in CoordCubes :
        /\ disk = [p \in {"a", "b"} |-> IF p = "a" THEN cA ELSE cB]
        /\ args = [fn |-> "none"]
        /\ handles = NoHandles
        /\ pc = "idle"
        /\ acc = NoData
        /\ i = 1
        /\ result = NoResult
        /\ warnings = {}
        /\ diff = NoDiff
        /\ images = <<>>

\* check_CIM_coordinate_equity(cimpath_a, cimpath_b), lines 250-344.
CallCoordinateEquity ==
    /\ pc = "idle"
    /\ \E cimpath_a \in DOMAIN disk, cimpath_b \in DOMAIN disk :
          /\ args' = [fn |-> "check_CIM_coordinate_equity", cimpath_a |-> cimpath_a,
                      cimpath_b |-> cimpath_b]
          /\ result' = check_CIM_coordinate_equity(disk[cimpath_a], disk[cimpath_b])
          /\ warnings' = warnings \cup result'.warned
    /\ pc' = "done"
    /\ UNCHANGED <<disk, handles, acc, i, diff, images>>

NextCoord == CallCoordinateEquity

SpecCoord == InitCoord /\ [][NextCoord]_vars

\* ------------------------------------------------------------------------
\* create_CIM_object called on paths and on the objects it returned
\* ------------------------------------------------------------------------

\* Largest number of create_CIM_object calls in one run.
MaxCalls == 4

\* The argument of create_CIM_object: a string holding a path, or an image
\* object. An object is told from every other by its id; opened says
\* whether building it read the image at its path.
ImageType == "casacore.images.image.image"
PyStr(path) == [type |-> "str", id |-> 0, path |-> path, opened |-> FALSE]

\* type(x) is a class; the literal on line 47 is a string.
TypeOf(x) == <<"class", x.type>>
StrLiteral(s) == <<"str", s>>

\* casaimage.image(x), line 52: a new image object, read from the path when
\* x is a string and sharing the image of x when x is an image object.
casaimage_image(x, id) ==
    [type |-> ImageType, id |-> id, path |-> x.path, opened |-> x.type = "str"]

\* Lines 47-52. A class never equals a string, so line 48 is not reached.
create_CIM_object(cimpath, id) ==
    IF TypeOf(cimpath) = StrLiteral(ImageType)
    THEN cimpath
    ELSE casaimage_image(cimpath, id)

InitOpen ==
    \E cA \in {RefCube(d) : d \in DataOver(<<1, 1, 1, 1>>, {One})} :
        /\ disk = [p \in {"a", "b"} |-> cA]
        /\ args = [fn |-> "none"]
        /\ handles = NoHandles
        /\ pc = "idle"
        /\ acc = NoData
        /\ i = 1
        /\ result = NoResult
        /\ warnings = {}
        /\ diff = NoDiff
        /\ images = <<>>

\* The objects the program holds are the same before and after the call
\* when the call returned its argument.
Held(imgs, cim) ==
    IF \E k \in DOMAIN imgs : imgs[k].id = cim.id THEN imgs ELSE Append(imgs, cim)

CallCreate(cimpath) ==
    LET cim == create_CIM_object(cimpath, Len(images) + 1)
    IN  /\ args' = [fn |-> "create_CIM_object", cimpath |-> cimpath]
        /\ result' = Outcome("", "", cim, {})
        /\ images' = Held(images, cim)
        /\ handles' = IF cim.id # cimpath.id /\ cim.opened
                      THEN [handles EXCEPT ![cim.path] = @ + 1]
                      ELSE handles
        /\ UNCHANGED <<disk, pc, acc, i, warnings, diff>>

\* create_CIM_object(path)
OpenPath ==
    /\ Len(images) < MaxCalls
    /\ \E path \in DOMAIN disk : CallCreate(PyStr(path))

\* create_CIM_object(cim), cim an object an earlier call returned.
PassHandle ==
    /\ Len(images) < MaxCalls
    /\ \E k \in DOMAIN images : CallCreate(images[k])

NextOpen == OpenPath \/ PassHandle

SpecOpen == InitOpen /\ [][NextOpen]_vars

\* ------------------------------------------------------------------------
\* set_CIM_unit called on a stored image
\* ------------------------------------------------------------------------

\* The units keyword of the stored image before the first call: missing,
\* empty, or one of two units.
StoredUnits == {<<>>, <<"">>, <<"Jy/beam">>, <<"K">>}
GivenUnits == {"Jy/beam", "K"}

InitUnit ==
    \E uA \in StoredUnits, uB \in StoredUnits, d \in DataOver(<<1, 1, 1, 1>>, {One}) :
        /\ disk = [p \in {"a", "b"} |->
                      [RefCube(d) EXCEPT !.units = IF p = "a" THEN uA ELSE uB]]
        /\ args = [fn |-> "none"]
        /\ handles = NoHandles
        /\ pc = "idle"
        /\ acc = NoData
        /\ i = 1
        /\ result = NoResult
        /\ warnings = {}
        /\ diff = NoDiff
        /\ images = <<>>

\* set_CIM_unit(cimpath, unit, overwrite), line 368: the image is opened
\* as a table.
SetUnitOpen ==
    /\ pc \in {"idle", "done"}
    /\ \E cimpath \in DOMAIN disk, u \in GivenUnits, overwrite \in BOOLEAN :
          args' = [fn |-> "set_CIM_unit", cimpath |-> cimpath, unit |-> u,
                   overwrite |-> overwrite, disk0 |-> disk]
    /\ handles' = create_MS_object(handles, args'.cimpath)
    /\ result' = NoResult
    /\ pc' = "set_unit_opened"
    /\ UNCHANGED <<disk, acc, i, warnings, diff, images>>

\* Lines 370-379: the keyword is read, kept or written, and the table is
\* closed.
SetUnitStore ==
    /\ pc = "set_unit_opened"
    /\ args.fn = "set_CIM_unit"
    /\ LET r == set_CIM_unit(disk[args.cimpath], args.unit, args.overwrite)
       IN  /\ disk' = [disk EXCEPT ![args.cimpath] = r.cim]
           /\ warnings' = warnings \cup r.warned
           /\ result' = Outcome("", "", TRUE, r.warned)
    /\ handles' = [handles EXCEPT ![args.cimpath] = @ - 1]
    /\ pc' = "done"
    /\ UNCHANGED <<args, acc, i, diff, images>>

NextUnit == SetUnitOpen \/ SetUnitStore

SpecUnit == InitUnit /\ [][NextUnit]_vars

\* ------------------------------------------------------------------------
\* measure_CIM_RMS
\* ------------------------------------------------------------------------

\* np.square(a)
np_square(a) == [shape |-> a.shape, at |-> [idx \in Indices(a.shape) |-> FMul(a.at[idx], a.at[idx])]]

RECURSIVE SumOver(_, _)
SumOver(at, S) ==
    IF S = {} THEN Zero
    ELSE LET idx == CHOOSE x \in S : TRUE
         IN  FAdd(at[idx], SumOver(at, S \ {idx}))

\* np.mean(a): the sum of the elements over their number (NaN for none).
np_mean(a) ==
    LET S == Indices(a.shape)
    IN  FDiv(SumOver(a.at, S), <<Cardinality(S), 1>>)

\* np.sqrt(x) for x >= 0 or NaN: the root is kept as its radicand; two
\* roots are equal exactly when their radicands are.
np_sqrt(x) == [sqrt |-> x]

\* The names bound in measure_CIM_RMS when line 487 runs.
RmsLocals ==
    {"cimpath", "all_dim", "chan", "pol", "close", "cim", "rms_matrix",
     "chan_i", "pol_j"}

\* Lines 478-497. Line 487 stores into rms_matrix[i, j]; the loops bind
\* chan_i and pol_j.
measure_CIM_RMS(cim, all_dim, chan, pol) ==
    IF all_dim
    THEN IF ~({"i", "j"} \subseteq (ModuleNames \cup RmsLocals))
         THEN Outcome("NameError", "name 'i' is not defined", FALSE, {})
         ELSE LET shape == <<cim.data.shape[1], cim.data.shape[2]>>
              IN  Outcome("", "",
                     [shape |-> shape,
                      at |-> [idx \in Indices(shape) |->
                                 np_sqrt(np_mean(np_square(
                                     Slice(cim.data, idx[1] - 1, idx[2] - 1))))]],
                     {})
    ELSE IF ~SliceInRange(cim.data, chan, pol)
    THEN Outcome("IndexError", "index out of bounds", FALSE, {})
    ELSE Outcome("", "", np_sqrt(np_mean(np_square(Slice(cim.data, chan, pol)))), {})

\* Cubes handed to measure_CIM_RMS: two channels or two polarizations.
RmsValues == {Zero, One, <<-2, 1>>, NaN}
RmsCubes ==
    {RefCube(d) : d \in DataOver(<<2, 1, 1, 1>>, RmsValues)
                        \cup DataOver(<<1, 2, 1, 1>>, RmsValues)}

InitRMS ==
    \E c \in RmsCubes :
        /\ disk = [p \in {"a"} |-> c]
        /\ args = [fn |-> "none"]
        /\ handles = NoHandles
        /\ pc = "idle"
        /\ acc = NoData
        /\ i = 1
        /\ result = NoResult
        /\ warnings = {}
        /\ diff = NoDiff
        /\ images = <<>>

\* measure_CIM_RMS(cimpath, all_dim, chan, pol)
CallRMS ==
    /\ pc = "idle"
    /\ \E cimpath \in DOMAIN disk, all_dim \in BOOLEAN, chan \in 0..1, pol \in 0..1 :
          /\ args' = [fn |-> "measure_CIM_RMS", cimpath |-> cimpath,
                      all_dim |-> all_dim, chan |-> chan, pol |-> pol]
          /\ result' = measure_CIM_RMS(disk[cimpath], all_dim, chan, pol)
    /\ pc' = "done"
    /\ UNCHANGED <<disk, handles, acc, i, warnings, diff, images>>

NextRMS == CallRMS

SpecRMS == InitRMS /\ [][NextRMS]_vars

\* ------------------------------------------------------------------------
\* Properties of CIM_stacking_base (checked under Spec)
\* ------------------------------------------------------------------------

\* C1: CIM_stacking_base raises before doing anything else when the list
\* has fewer than 2 paths, and raises when the output path exists and
\* overwrite is False; with at least 2 paths and overwrite True or no image
\* at the output path, neither assertion raises.
C1_StackPreconditions ==
    (args.fn = "CIM_stacking_base" /\ pc # "stack") =>
        LET n == Len(args.cimpath_list)
            existed == args.output_cim \in DOMAIN args.disk0
            untouched == disk = args.disk0 /\ handles = NoHandles /\ warnings = {}
            messages == {"less than two image given", "stacked image already exist"}
        IN  /\ n < 2 =>
                /\ pc = "raised"
                /\ result.exc = "AssertionError"
                /\ result.msg = "less than two image given"
                /\ untouched
            /\ (n >= 2 /\ existed /\ ~args.overwrite) =>
                /\ pc = "raised"
                /\ result.exc = "AssertionError"
                /\ result.msg = "stacked image already exist"
                /\ untouched
            /\ (n >= 2 /\ (args.overwrite \/ ~existed)) =>
                ~(pc = "raised" /\ result.msg \in messages)

\* C1, the case reached: two or more paths, an image at the output path,
\* overwrite False, and the call has raised.
C1_Witness ==
    /\ args.fn = "CIM_stacking_base"
    /\ pc = "raised"
    /\ Len(args.cimpath_list) >= 2
    /\ args.output_cim \in DOMAIN args.disk0
    /\ ~args.overwrite
    /\ result.msg = "stacked image already exist"

\* C2: for every list of N >= 2 compatible cubes, CIM_stacking_base ends by
\* writing to the output cube the elementwise sum of the N inputs' data
\* (normalise False) or that sum divided by N (normalise True).
C2_StackWritesSum ==
    LET list == args.cimpath_list
        n == Len(list)
        in(k) == args.disk0[list[k]]
        compatible ==
            \A k \in 1..n : [in(k) EXCEPT !.data = NoData] = [in(1) EXCEPT !.data = NoData]
                            /\ in(k).data.shape = in(1).data.shape
        total[k \in 1..n] ==
            [idx \in DOMAIN in(1).data.at |->
                IF k = 1 THEN in(1).data.at[idx]
                ELSE FAdd(total[k - 1][idx], in(k).data.at[idx])]
        expected ==
            [idx \in DOMAIN in(1).data.at |->
                IF args.normalise THEN FDiv(total[n][idx], <<n, 1>>) ELSE total[n][idx]]
    IN  (/\ args.fn = "CIM_stacking_base"
         /\ pc \in {"returned", "raised"}
         /\ n >= 2
         /\ args.overwrite \/ args.output_cim \notin DOMAIN args.disk0
         /\ compatible)
        => /\ pc = "returned"
           /\ disk[args.output_cim].data.at = expected

\* C3: after CIM_stacking_base([A, B], out, normalise=False) on compatible
\* cubes, create_CIM_diff_array(out, A, all_dim=True) returns B's data.
C3_DifferenceRecoversAddend ==
    LET list == args.cimpath_list
        A == args.disk0[list[1]]
        B == args.disk0[list[2]]
    IN  (/\ args.fn = "CIM_stacking_base"
         /\ diff.called
         /\ Len(list) = 2
         /\ ~args.normalise
         /\ args.overwrite \/ args.output_cim \notin DOMAIN args.disk0
         /\ [A EXCEPT !.data = NoData] = [B EXCEPT !.data = NoData]
         /\ A.data.shape = B.data.shape
         /\ diff.cimpath_a = args.output_cim
         /\ diff.cimpath_b = list[1]
         /\ diff.all_dim
         /\ ~diff.rel_diff)
        => /\ diff.out.exc = ""
           /\ diff.out.val = B.data

C6_SelfCheckReturnsTrue ==
    (/\ args.fn = "check_CIM_coordinate_equity"
     /\ pc = "done"
     /\ args.cimpath_a = args.cimpath_b
     /\ ndim(disk[args.cimpath_a]) = 4)
    => /\ result.exc = ""
       /\ result.val = TRUE
       /\ result.warned = {}
       /\ warnings = {}

\* C7: when the two cubes agree in everything but the spectral reference
\* pixel (and possibly the spectral reference value, which is then not
\* compared), check_CIM_coordinate_equity warns about the reference pixel,
\* raises nothing and returns True.
C7_ReferencePixelOnlyWarns ==
    (args.fn = "check_CIM_coordinate_equity" /\ pc = "done") =>
        LET A == disk[args.cimpath_a]
            B == disk[args.cimpath_b]
            masked(c) == [c EXCEPT !.coords.spectral.referencepixel = 0,
                                   !.coords.spectral.referencevalue = 0]
        IN  (/\ masked(A) = masked(B)
             /\ A.coords.spectral.referencepixel # B.coords.spectral.referencepixel)
            => /\ result.exc = ""
               /\ result.val = TRUE
               /\ "different spectral reference pixel" \in result.warned

\* ------------------------------------------------------------------------
\* Properties of check_CIM_equity (checked under SpecEquity)
\* ------------------------------------------------------------------------

\* C8: check_CIM_equity is symmetric: for cubes A, B of equal shape and
\* every numprec >= 0, check_CIM_equity(A, B, numprec) returns what
\* check_CIM_equity(B, A, numprec) returns.
C8_EquitySymmetric ==
    (args.fn = "check_CIM_equity" /\ pc = "done") =>
        LET A == disk[args.cimpath_a]
            B == disk[args.cimpath_b]
            swapped == check_CIM_equity(B, A, args.numprec)
        IN  A.data.shape = B.data.shape
            => /\ result.exc = ""
               /\ swapped.exc = ""
               /\ result.val = swapped.val

\* C9: check_CIM_equity treats NaN-vs-NaN as equal at any numprec, 0
\* included: two cubes with the same value at every position, NaN at the
\* same positions, compare equal.
C9_NaNEqualAtAnyPrecision ==
    (args.fn = "check_CIM_equity" /\ pc = "done") =>
        (disk[args.cimpath_a].data = disk[args.cimpath_b].data
            => /\ result.exc = ""
               /\ result.val = TRUE)

\* C10 as stated: check_CIM_equity raises only when the ndim differ; for
\* every pair of cubes of equal ndim, whatever their shapes, and every
\* numprec, it returns a boolean and does not raise.
C10_RaisesOnlyOnNdim ==
    (args.fn = "check_CIM_equity" /\ pc = "done") =>
        (result.exc # "" <=> ndim(disk[args.cimpath_a]) # ndim(disk[args.cimpath_b]))

\* C10 amended: check_CIM_equity raises AssertionError when the ndim
\* differ; for equal ndim it returns a boolean when numprec is 0 or the
\* two shapes can be broadcast together, and raises ValueError when
\* numprec is not 0 and the shapes cannot be broadcast together.
C10_RaisesOnNdimOrBroadcast ==
    (args.fn = "check_CIM_equity" /\ pc = "done") =>
        LET A == disk[args.cimpath_a]
            B == disk[args.cimpath_b]
            fits == Broadcastable(A.data.shape, B.data.shape)
        IN  /\ ndim(A) # ndim(B) => result.exc = "AssertionError"
            /\ (ndim(A) = ndim(B) /\ (args.numprec = Zero \/ fits)) =>
                  result.exc = "" /\ result.val \in BOOLEAN
            /\ (ndim(A) = ndim(B) /\ args.numprec # Zero /\ ~fits) =>
                  result.exc = "ValueError"

\* C10, the case reached: equal ndim, shapes that cannot be broadcast
\* together, numprec 0, and the call has returned False.
C10_Witness ==
    /\ args.fn = "check_CIM_equity"
    /\ pc = "done"
    /\ ndim(disk[args.cimpath_a]) = ndim(disk[args.cimpath_b])
    /\ ~Broadcastable(disk[args.cimpath_a].data.shape, disk[args.cimpath_b].data.shape)
    /\ args.numprec = Zero
    /\ result.exc = ""
    /\ result.val = FALSE

\* ------------------------------------------------------------------------
\* Properties of create_CIM_object (checked under SpecOpen)
\* ------------------------------------------------------------------------

\* C11: create_CIM_object is idempotent: given an image object it returns
\* that same object and opens nothing; given a path it opens the image once;
\* so each path has been opened once per call made with the path, however
\* many calls were made with the objects.
C11_OpenIdempotent ==
    args.fn = "create_CIM_object" =>
        /\ args.cimpath.type = ImageType => result.val = args.cimpath
        /\ args.cimpath.type = "str" =>
              /\ result.val.path = args.cimpath.path
              /\ result.val.opened
        /\ \A p \in DOMAIN disk :
              handles[p] = Cardinality({k \in DOMAIN images :
                                           images[k].path = p /\ images[k].opened})

\* ------------------------------------------------------------------------
\* Properties of set_CIM_unit (checked under SpecUnit)
\* ------------------------------------------------------------------------

\* C12: when set_CIM_unit has returned: if the image had a unit that
\* differs from the given one and overwrite is False, the stored unit is
\* the one it had and a warning was issued; if overwrite is True the stored
\* unit is the given one; if the image had no unit the stored unit is the
\* given one; nothing else of the image has changed; and the table opened
\* by the call is closed.
C12_SetUnit ==
    (args.fn = "set_CIM_unit" /\ pc = "done") =>
        LET before == args.disk0[args.cimpath]
            after == disk[args.cimpath]
        IN  /\ (before.units # <<>> /\ before.units[1] # args.unit /\ ~args.overwrite) =>
                  after.units = before.units /\ result.warned # {}
            /\ args.overwrite => after.units = <<args.unit>>
            /\ before.units = <<>> => after.units = <<args.unit>>
            /\ after = [before EXCEPT !.units = after.units]
            /\ handles[args.cimpath] = 0

\* C12, the case reached: the image had a unit, another one was given with
\* overwrite False, and the call has returned with a warning.
C12_Witness ==
    /\ args.fn = "set_CIM_unit"
    /\ pc = "done"
    /\ args.disk0[args.cimpath].units = <<"K">>
    /\ args.unit = "Jy/beam"
    /\ ~args.overwrite
    /\ disk[args.cimpath].units = <<"K">>
    /\ result.warned # {}
    /\ handles[args.cimpath] = 0

\* ------------------------------------------------------------------------
\* Properties of the rank of the cubes (checked under SpecEquity)
\* ------------------------------------------------------------------------

\* C13: every cube admitted to an operation has ndim = 4: when
\* check_CIM_equity was given a cube of another rank, it has raised the
\* AssertionError that check_axes raises for that cube, also when both
\* cubes have the same rank.
C13_OnlyRankFourAdmitted ==
    (args.fn = "check_CIM_equity" /\ pc = "done") =>
        \A p \in {args.cimpath_a, args.cimpath_b} :
            ndim(disk[p]) # 4 => result.exc = check_axes(disk[p], 4).exc

\* ------------------------------------------------------------------------
\* Properties of measure_CIM_RMS (checked under SpecRMS)
\* ------------------------------------------------------------------------

\* C14: measure_CIM_RMS with all_dim set returns an N_chan x N_pol matrix
\* whose entry [c, p] is, for every channel c and polarization p, the value
\* the call with all_dim unset, chan = c and pol = p returns on that cube.
C14_MatrixOfSliceRMS ==
    (args.fn = "measure_CIM_RMS" /\ pc = "done" /\ args.all_dim) =>
        LET cim == disk[args.cimpath]
            N_chan == cim.data.shape[1]
            N_pol == cim.data.shape[2]
        IN  /\ result.exc = ""
            /\ result.val.shape = <<N_chan, N_pol>>
            /\ \A c \in 0..(N_chan - 1), p \in 0..(N_pol - 1) :
                  result.val.at[<<c + 1, p + 1>>] = measure_CIM_RMS(cim, FALSE, c, p).val

\* ------------------------------------------------------------------------
\* Handles and failures of CIM_stacking_base (checked under Spec)
\* ------------------------------------------------------------------------

\* C15: in a run of CIM_stacking_base over pairwise different input paths
\* and an output path that is none of them, no path ever has two open
\* handles: the output image's handle is released before set_CIM_unit opens
\* the table, the table is closed before the output is reopened, and a run
\* that passed the preconditions on compatible inputs ends with the single
\* putdata made after the last input, every handle released.
C15_OneHandlePerPath ==
    LET list == args.cimpath_list
        n == Len(list)
        in(k) == args.disk0[list[k]]
        distinct ==
            /\ \A k, l \in 1..n : k # l => list[k] # list[l]
            /\ \A k \in 1..n : list[k] # args.output_cim
        compatible ==
            \A k \in 1..n : [in(k) EXCEPT !.data = NoData] = [in(1) EXCEPT !.data = NoData]
                            /\ in(k).data.shape = in(1).data.shape
    IN  (args.fn = "CIM_stacking_base" /\ distinct) =>
            /\ \A p \in Paths : handles[p] <= 1
            /\ pc = "set_unit" => handles[args.output_cim] = 0
            /\ pc = "set_unit_opened" => handles[args.output_cim] = 1
            /\ pc = "reopen" => handles[args.output_cim] = 0
            /\ (/\ pc \in {"returned", "raised"}
                /\ n >= 2
                /\ args.overwrite \/ args.output_cim \notin DOMAIN args.disk0
                /\ compatible)
               => /\ pc = "returned"
                  /\ handles[args.output_cim] = 0

====
